---- MODULE Spec2Model ----
(***************************************************************************)
(* Order engine of the MintraTrade e-commerce platform.                    *)
(*                                                                         *)
(* Server side: the Mongoose Order model (server/models/Order.js): its two *)
(* pre('save') hooks (order number generation, totals), the instance       *)
(* methods canBeCancelled, canBeReturned and updateStatus, and the         *)
(* collection with its unique index on orderNumber.  Request handlers run  *)
(* concurrently; every database operation (countDocuments, insert, update, *)
(* findById) is one atomic step, and a handler can be preempted at each    *)
(* await.                                                                  *)
(*                                                                         *)
(* Client side: the Redux order slice (client/src/store/slices/           *)
(* orderSlice.js): the list of orders and the current order the browser    *)
(* holds, and the reducers that change their status, cancel them, file     *)
(* return requests and record payment updates.                             *)
(*                                                                         *)
(* save() follows Mongoose: validation of the modified paths first, then   *)
(* the pre('save') hooks in the order the schema registers them, then an   *)
(* insert (new document) or an update that $sets the modified paths        *)
(* (stored document).  The `required` check of orderNumber, subtotal and   *)
(* total is not modelled: the hooks that fill them are taken to run on     *)
(* every save, as the schema writes them.  The unique index on orderNumber *)
(* is taken to be built.                                                   *)
(*                                                                         *)
(* The schema option timestamps: true stamps createdAt when save() starts, *)
(* before the hooks the schema registers itself.                           *)
(*                                                                         *)
(* Two parts of the engine have only their schema in the source: the       *)
(* derivation of subOrders from items, and the steps of a return request.  *)
(* They are modelled from the specification (sections 4.3 and 4.4):        *)
(* SplitBySeller and its helpers, createReturn and advanceReturn.          *)
(*                                                                         *)
(* Around the order engine: the cart slice (client/src/store/slices/       *)
(* cartSlice.js), the auth middleware (server/middleware/auth.js), the     *)
(* login route with the User model's lockout methods (server/index.js,     *)
(* the User model), and the chat widget's sendMessage with the chatbot     *)
(* slice.  Each has its own variables and specification.                   *)
(*                                                                         *)
(* Money is modelled with integers.  The clock counts whole seconds (the   *)
(* code's Date values count milliseconds; no operation of the model needs  *)
(* the finer grain).                                                       *)
(***************************************************************************)
EXTENDS Integers, Sequences, FiniteSets

VARIABLES
    now,          \* the wall clock, Date.now(), in seconds since the model's epoch
    db,           \* the orders collection: a sequence of stored documents, _id = index
    rev,          \* history: rev[o] = number of successful writes of stored order o
    pc,           \* pc[r]: where request handler r stands
    doc,          \* doc[r]: the in-memory Order document handler r holds
    cnt,          \* cnt[r]: the result of handler r's countDocuments
    date,         \* date[r]: the `date` handler r's order-number hook captured
    target,       \* target[r]: _id of the stored order doc[r] was loaded from (0: none)
    seenRev,      \* history: rev[target[r]] when handler r loaded its document
    err,          \* err[r]: outcome of handler r's last save
    orders,       \* client: state.orders.orders, a sequence of order objects
    currentOrder, \* client: state.orders.currentOrder (NoOrder: null)
    cart,         \* client: state.cart (items, totalItems, totalPrice, loading, error)
    account,      \* the stored User document: loginAttempts, lockUntil
    login,        \* login[r]: where login request r stands, the user it read, its answer
    auth,         \* auth[r]: request r in the auth middleware chain: req.user, req.userId, answer, next() calls
    chat,         \* client: state.chatbot (messages, loading)
    widget,       \* the ChatBot component's local state: message, isTyping
    sends         \* sends[k]: where the k-th call of sendMessage stands, and its reply

serverVars == <<db, rev, pc, doc, cnt, date, target, seenRev, err>>
clientVars == <<orders, currentOrder>>
cartVars == <<cart>>
loginVars == <<account, login>>
authVars == <<auth>>
chatVars == <<chat, widget, sends>>

\* What the actions of one side leave alone.
notServer == <<now, clientVars, cartVars, loginVars, authVars, chatVars>>
notClient == <<now, serverVars, cartVars, loginVars, authVars, chatVars>>
notCart == <<now, serverVars, clientVars, loginVars, authVars, chatVars>>
notLogin == <<now, serverVars, clientVars, cartVars, authVars, chatVars>>
notAuth == <<now, serverVars, clientVars, cartVars, loginVars, chatVars>>
notChat == <<now, serverVars, clientVars, cartVars, loginVars, authVars>>

vars == <<now, serverVars, clientVars, cartVars, loginVars, authVars, chatVars>>

--------------------------------------------------------------------------
(* Bounds of the model *)

NReq == 2            \* concurrent request handlers
MaxOrders == 3       \* orders created in the creation specification
MaxTracked == 1      \* orders created in the life-cycle specification
MaxWrites == 2       \* successful saves of one stored order after its creation
NInstants == 3       \* instants of the clock the server specifications visit
MaxClientOrders == 1 \* orders in the client's list
MaxHistory == 1      \* entries of a client order's statusHistory
MaxReturns == 1      \* entries of an order's returns
MaxItems == 2        \* item positions a caller addresses
MaxCartItems == 2    \* items in the cart
MaxQuantity == 3     \* quantity of one cart item
MaxLoginAttempts == 6 \* failed logins the stored counter is followed through
NLoginInstants == 3  \* instants of the clock while logins are followed
MaxSends == 2        \* calls of the chat widget's sendMessage

Req == 1..NReq

--------------------------------------------------------------------------
(* Time and calendar *)

SecPerDay == 60 * 60 * 24

\* The instants the clock can show: two in the first day, then later days.
Instants ==
    <<0, 1, SecPerDay, SecPerDay + 1, 2 * SecPerDay, 30 * SecPerDay,
      30 * SecPerDay + 1, 31 * SecPerDay>>

Min(a, b) == IF a <= b THEN a ELSE b

Times == { Instants[i] : i \in 1..Min(NInstants, Len(Instants)) }

None == -1           \* an unset Date field

\* new Date(y, m, d): local midnight of the day t falls in, and of the next.
StartOfDay(t) == (t \div SecPerDay) * SecPerDay

\* getFullYear / getMonth / getDate of the instant t.  The model's epoch is
\* 2025-12-31T00:00 local time, so the first tick of a day crosses a month
\* and a year.  getMonth is zero-based.
DateOf(t) ==
    LET d == t \div SecPerDay IN
    IF d = 0 THEN [year |-> 2025, month |-> 11, day |-> 31]
    ELSE IF d <= 31 THEN [year |-> 2026, month |-> 0, day |-> d]
    ELSE [year |-> 2026, month |-> 1, day |-> d - 31]

--------------------------------------------------------------------------
(* Strings: Number.prototype.toString, slice(-2), padStart *)

DigitChar == <<"0", "1", "2", "3", "4", "5", "6", "7", "8", "9">>

RECURSIVE NumToString(_)
NumToString(n) ==
    IF n < 10 THEN <<DigitChar[n + 1]>>
    ELSE NumToString(n \div 10) \o <<DigitChar[(n % 10) + 1]>>

\* s.slice(-k): the last k characters (all of s when it is shorter)
SliceLast(s, k) ==
    IF Len(s) <= k THEN s ELSE SubSeq(s, Len(s) - k + 1, Len(s))

\* s.padStart(n, c)
padStart(s, n, c) ==
    IF Len(s) >= n THEN s ELSE [i \in 1..(n - Len(s)) |-> c] \o s

\* As OrderNumberOf, but with the counter starting at 0000.
OrderNumberOf_CountFromZero(t, count) ==
    LET dt == DateOf(t) IN
    <<"M", "T">> \o SliceLast(NumToString(dt.year), 2)
        \o padStart(NumToString(dt.month + 1), 2, "0")
        \o padStart(NumToString(dt.day), 2, "0")
        \o padStart(NumToString(count), 4, "0")

\* `MT${year}${month}${day}${(count + 1).toString().padStart(4, '0')}`
OrderNumberOf(t, count) ==
    LET dt    == DateOf(t)
        year  == SliceLast(NumToString(dt.year), 2)
        month == padStart(NumToString(dt.month + 1), 2, "0")
        day   == padStart(NumToString(dt.day), 2, "0")
    IN  <<"M", "T">> \o year \o month \o day
            \o padStart(NumToString(count + 1), 4, "0")

NoNumber == <<>>     \* orderNumber not yet assigned

--------------------------------------------------------------------------
(* The Order schema *)

Statuses ==
    {"pending", "confirmed", "processing", "shipped", "delivered",
     "cancelled", "returned"}

\* What a caller may pass to updateStatus: the enumeration and a value outside it.
StatusArgs == Statuses \cup {"refunded"}

--------------------------------------------------------------------------
(* Sub-orders: the partition of a new order's items by seller *)

\* The sellers of items, in the order they first appear.
RECURSIVE SellersOf(_)
SellersOf(items) ==
    IF items = <<>> THEN <<>>
    ELSE LET rest == SellersOf(SubSeq(items, 1, Len(items) - 1))
             s == items[Len(items)].seller
         IN  IF \E k \in 1..Len(rest) : rest[k] = s THEN rest ELSE Append(rest, s)

\* The positions of one seller's items, ascending.
RECURSIVE IndexesOf(_, _)
IndexesOf(items, seller) ==
    IF items = <<>> THEN <<>>
    ELSE LET rest == IndexesOf(SubSeq(items, 1, Len(items) - 1), seller)
         IN  IF items[Len(items)].seller = seller
             THEN Append(rest, Len(items)) ELSE rest

\* price * quantity * commission / 100 of one item, rounded half up to the
\* minor unit (amounts are integers of the minor unit).
ItemCommission(item) ==
    (item.price * item.quantity * item.commission + 50) \div 100

RECURSIVE SubOrderTotal(_, _)
SubOrderTotal(items, idx) ==
    IF idx = <<>> THEN 0
    ELSE SubOrderTotal(items, Tail(idx))
            + items[Head(idx)].price * items[Head(idx)].quantity

RECURSIVE SubOrderCommission(_, _)
SubOrderCommission(items, idx) ==
    IF idx = <<>> THEN 0
    ELSE SubOrderCommission(items, Tail(idx)) + ItemCommission(items[Head(idx)])

SubOrderOf(items, seller) ==
    LET idx == IndexesOf(items, seller) IN
    [ seller |-> seller, items |-> idx, status |-> "pending",
      total |-> SubOrderTotal(items, idx),
      commission |-> SubOrderCommission(items, idx) ]

\* The sub-orders of a list of items, one per seller.
SplitBySeller(items) ==
    LET s == SellersOf(items) IN
    [ k \in 1..Len(s) |-> SubOrderOf(items, s[k]) ]

\* Checkout inputs: items, pricing inputs and the subtotal/total the caller wrote.
\* The first is the two-seller order of 250 + 10 + 5; the second carries a
\* discount larger than everything else, caller totals that are wrong, and a
\* seller whose items are not adjacent.
Item(seller, price, quantity, commission) ==
    [ seller |-> seller, price |-> price, quantity |-> quantity,
      commission |-> commission, status |-> "pending" ]

Templates ==
    { [items |-> << Item("S1", 100, 2, 5), Item("S2", 50, 1, 10) >>,
       tax |-> 10, shipping |-> 5, discount |-> 0, subtotal |-> 250, total |-> 265],
      [items |-> << Item("S1", 4, 1, 5), Item("S2", 3, 1, 100), Item("S1", 3, 1, 30) >>,
       tax |-> 0, shipping |-> 0, discount |-> 15, subtotal |-> 999, total |-> 1] }

\* A checkout that carries no items.
EmptyCheckout ==
    [items |-> <<>>, tax |-> 0, shipping |-> 0, discount |-> 0,
     subtotal |-> 0, total |-> 0]

\* Statuses a caller writes into an item, and the order status requested after.
ItemStatusArgs == {"shipped", "delivered"}
AfterItemArgs == {"cancelled"}

\* Values a caller writes straight into subtotal / total of a loaded document.
TamperValues == {7}

\* new Order(data): schema defaults applied, nothing persisted yet.
NewOrder(tpl) ==
    [ orderNumber |-> NoNumber, items |-> tpl.items,
      subtotal |-> tpl.subtotal, tax |-> tpl.tax, shipping |-> tpl.shipping,
      discount |-> tpl.discount, total |-> tpl.total,
      status |-> "pending",
      confirmedAt |-> None, shippedAt |-> None, deliveredAt |-> None,
      createdAt |-> None,
      subOrders |-> SplitBySeller(tpl.items), returns |-> <<>>,
      isNew |-> TRUE, dirty |-> {} ]

\* The slot of a handler that holds no document.
NoDoc ==
    [ orderNumber |-> NoNumber, items |-> <<>>,
      subtotal |-> 0, tax |-> 0, shipping |-> 0, discount |-> 0, total |-> 0,
      status |-> "pending",
      confirmedAt |-> None, shippedAt |-> None, deliveredAt |-> None,
      createdAt |-> None,
      subOrders |-> <<>>, returns |-> <<>>,
      isNew |-> FALSE, dirty |-> {} ]

\* Assignment to a path of a document: the path counts as modified when the
\* value changes.
SetPath(d, path, val) ==
    IF d[path] = val THEN d
    ELSE [d EXCEPT ![path] = val, !.dirty = @ \cup {path}]

\* this.items.reduce((sum, item) => sum + (item.price * item.quantity), 0)
RECURSIVE SumItems(_)
SumItems(items) ==
    IF items = <<>> THEN 0
    ELSE SumItems(SubSeq(items, 1, Len(items) - 1))
            + items[Len(items)].price * items[Len(items)].quantity

\* As PreSaveTotals, but trusting the subtotal the document carries.
PreSaveTotals_KeepSubtotal(d) ==
    SetPath(d, "total", d.subtotal + d.tax + d.shipping - d.discount)

\* pre('save'): calculate totals before saving
PreSaveTotals(d) ==
    LET d1 == SetPath(d, "subtotal", SumItems(d.items))
    IN  SetPath(d1, "total", d1.subtotal + d1.tax + d1.shipping - d1.discount)

\* As PreSaveOrderNumber, but numbering the document on every save.
PreSaveOrderNumber_Always(d, t, count) ==
    SetPath(d, "orderNumber", OrderNumberOf(t, count))

\* pre('save'): generate the order number, the part after the await
PreSaveOrderNumber(d, t, count) ==
    IF d.orderNumber = NoNumber
    THEN SetPath(d, "orderNumber", OrderNumberOf(t, count))
    ELSE d

\* countDocuments({createdAt: {$gte: midnight of date, $lt: next midnight}})
countDocuments(t) ==
    Cardinality({ o \in 1..Len(db) :
        /\ db[o].createdAt >= StartOfDay(t)
        /\ db[o].createdAt < StartOfDay(t) + SecPerDay })

\* Schema validation of the status paths (enum), of the order and of its items
Validate(d) ==
    /\ d.status \in Statuses
    /\ \A i \in 1..Len(d.items) : d.items[i].status \in Statuses

\* As UniqueOk, with the index missing.
UniqueOk_NoIndex(d) == d.orderNumber # NoNumber

\* The unique index on orderNumber
UniqueOk(d) == \A o \in 1..Len(db) : db[o].orderNumber # d.orderNumber

\* canBeCancelled
canBeCancelled(d) == d.status \in {"pending", "confirmed"}

ReturnWindowDays == 30

\* canBeReturned, evaluated at instant t.  daysSinceDelivery <= 30 is compared
\* without dividing: elapsed / day <= 30 iff elapsed <= 30 * day.
canBeReturned(d, t) ==
    LET elapsed == IF d.deliveredAt # None THEN t - d.deliveredAt ELSE 0
    IN  d.status = "delivered" /\ elapsed <= ReturnWindowDays * SecPerDay

\* As UpdateStatusFields, but with the switch falling through its cases.
UpdateStatusFields_FallThrough(d, newStatus, t) ==
    LET d1 == SetPath(d, "status", newStatus)
        d2 == IF newStatus = "confirmed" THEN SetPath(d1, "confirmedAt", t) ELSE d1
        d3 == IF newStatus \in {"confirmed", "shipped"}
              THEN SetPath(d2, "shippedAt", t) ELSE d2
    IN  IF newStatus \in {"confirmed", "shipped", "delivered"}
        THEN SetPath(d3, "deliveredAt", t) ELSE d3

\* As UpdateStatusFields, but without the stamp of the delivery.
UpdateStatusFields_NoDeliveryStamp(d, newStatus, t) ==
    LET d1 == SetPath(d, "status", newStatus) IN
    CASE newStatus = "confirmed" -> SetPath(d1, "confirmedAt", t)
      [] newStatus = "shipped"   -> SetPath(d1, "shippedAt", t)
      [] OTHER -> d1

\* updateStatus, the part before this.save(): the in-memory assignments
UpdateStatusFields(d, newStatus, t) ==
    LET d1 == SetPath(d, "status", newStatus) IN
    CASE newStatus = "confirmed" -> SetPath(d1, "confirmedAt", t)
      [] newStatus = "shipped"   -> SetPath(d1, "shippedAt", t)
      [] newStatus = "delivered" -> SetPath(d1, "deliveredAt", t)
      [] OTHER -> d1

\* The statuses of a return request (enum of returns.status)
ReturnStatuses ==
    {"requested", "approved", "rejected", "received", "processed", "completed"}

\* As ReturnStepAllowed, but letting a return move to any other status.
ReturnStepAllowed_Any(from, to) == from # to

\* The return status machine: requested -> approved -> received -> processed
\* -> completed, or requested -> rejected.
ReturnStepAllowed(from, to) ==
    <<from, to>> \in { <<"requested", "approved">>, <<"approved", "received">>,
                       <<"received", "processed">>, <<"processed", "completed">>,
                       <<"requested", "rejected">> }

\* A new return request for the items at positions items.
NewReturn(items, reason, t) ==
    [ items |-> items, reason |-> reason, status |-> "requested",
      refundAmount |-> 0, requestedAt |-> t, processedAt |-> None ]

\* One step of a return request; reaching processed computes the refund as
\* the sum of price * quantity of the returned items.
ReturnAdvanced(d, ret, to, t) ==
    IF to = "processed"
    THEN [ret EXCEPT !.status = to,
                     !.refundAmount = SubOrderTotal(d.items, ret.items),
                     !.processedAt = t]
    ELSE [ret EXCEPT !.status = to]

\* What the database keeps of a document
Stored(d) == [d EXCEPT !.isNew = FALSE, !.dirty = {}]

\* save() of a document that is already stored: an update that $sets the
\* modified paths of the stored record.
ApplyDirty(old, d) ==
    [ p \in DOMAIN old |->
        IF p \in d.dirty THEN d[p] ELSE old[p] ]

--------------------------------------------------------------------------
(* The client's order slice: order objects and reducers *)

\* An absent cancellation record, and state.currentOrder = null.
NoCancellation == [reason |-> "", cancelledAt |-> None]

\* The payment of an order as the server sends it: nothing paid or refunded.
NewPayment ==
    [ method |-> "stripe", status |-> "pending", transactionId |-> "",
      updatedAt |-> None, refunds |-> <<>> ]

ClientOrder(id, status, deliveredAt) ==
    [ id |-> id, status |-> status, deliveredAt |-> deliveredAt,
      updatedAt |-> None, statusHistory |-> <<>>,
      cancellation |-> NoCancellation, returns |-> <<>>,
      total |-> 265, payment |-> NewPayment ]

NoOrder == ClientOrder(0, "pending", None)

\* Orders as the server sends them to the browser.
ClientPayloads ==
    { ClientOrder(1, "pending", None),
      ClientOrder(1, "shipped", None),
      ClientOrder(2, "delivered", 0) }

ClientIds == { p.id : p \in ClientPayloads } \cup {3}

\* Orders the payment reducer meets: one awaiting payment, one paid and
\* delivered.
PaymentPayloads ==
    { ClientOrder(1, "pending", None),
      [ClientOrder(2, "delivered", 0) EXCEPT
            !.payment.status = "completed", !.payment.transactionId = "tx0"] }

\* The order the mirror specification follows, an id the store does not
\* hold, and the data of real-time updates: a new status, alone or with the
\* returns list as the sender holds it.
MirrorPayloads == { ClientOrder(1, "pending", None) }
MirrorIds == {1, 3}
UpdateData ==
    { [status |-> "shipped"],
      [status |-> "shipped", returns |-> <<>>] }

\* Payloads of updatePaymentStatus.
PaymentStatusArgs == {"completed", "failed", "refunded"}
TransactionIds == {"tx1"}

\* The timestamp of an action's payload: absent, or one the sender chose.
TimestampArgs == {None, 0}

\* The instants the browser's clock visits: delivery, the last instant of the
\* return window, and a day later.
ClientTimes == {0, ReturnWindowDays * SecPerDay, (ReturnWindowDays + 1) * SecPerDay}

\* state.orders.find(order => order.id === orderId): its index, 0 when absent
FindIndex(list, orderId) ==
    IF \E i \in 1..Len(list) : list[i].id = orderId
    THEN CHOOSE i \in 1..Len(list) :
            /\ list[i].id = orderId
            /\ \A j \in 1..(i - 1) : list[j].id # orderId
    ELSE 0

\* timestamp || new Date().toISOString()
OrNow(timestamp, t) == IF timestamp # None THEN timestamp ELSE t

\* updateOrderStatus on the order found in the list
StatusOnListed(o, status, timestamp, t) ==
    [o EXCEPT !.status = status,
              !.updatedAt = OrNow(timestamp, t),
              !.statusHistory =
                  Append(@, [status |-> status, timestamp |-> OrNow(timestamp, t)])]

\* As StatusOnCurrent, but only stamping the current order.
StatusOnCurrent_OnlyStamp(o, status, timestamp, t) ==
    [o EXCEPT !.updatedAt = OrNow(timestamp, t)]

\* updateOrderStatus on the current order
StatusOnCurrent(o, status, timestamp, t) ==
    [o EXCEPT !.status = status, !.updatedAt = OrNow(timestamp, t)]

\* cancelOrder on one order object
Cancelled(o, reason, t) ==
    [o EXCEPT !.status = "cancelled",
              !.cancellation = [reason |-> reason, cancelledAt |-> t]]

\* As WithPayment, but writing the payment status into the order's status.
WithPayment_IntoStatus(o, paymentStatus, transactionId, t) ==
    [o EXCEPT !.status = paymentStatus,
              !.payment = [@ EXCEPT !.transactionId = transactionId,
                                    !.updatedAt = t]]

\* updatePaymentStatus on one order object:
\* order.payment = {...order.payment, status, transactionId, updatedAt}
WithPayment(o, paymentStatus, transactionId, t) ==
    [o EXCEPT !.payment = [@ EXCEPT !.status = paymentStatus,
                                    !.transactionId = transactionId,
                                    !.updatedAt = t]]

\* Object.assign(order, data): the fields data carries replace the order's.
Assigned(o, data) ==
    [ f \in DOMAIN o |-> IF f \in DOMAIN data THEN data[f] ELSE o[f] ]

\* requestReturn on one order object
WithReturn(o, items, reason, t) ==
    [o EXCEPT !.returns =
        Append(@, [id |-> t, items |-> items, reason |-> reason,
                   status |-> "requested", requestedAt |-> t])]

\* The list with its first order of this id replaced by `changed` (the list
\* itself when no order has this id).
OnListed(orderId, changed) ==
    LET i == FindIndex(orders, orderId) IN
    IF i # 0 THEN [orders EXCEPT ![i] = changed] ELSE orders

Listed(orderId) == orders[FindIndex(orders, orderId)]

IsListed(orderId) == FindIndex(orders, orderId) # 0

IsCurrent(orderId) == currentOrder # NoOrder /\ currentOrder.id = orderId

--------------------------------------------------------------------------
(* The client's cart slice *)

\* initialState of the cart
EmptyCart ==
    [ items |-> <<>>, totalItems |-> 0, totalPrice |-> 0,
      loading |-> FALSE, error |-> "" ]

\* Products put into the cart, and the variant of an addToCart payload:
\* undefined (NoVariant), 'default' or 'red'.  Strings are sequences of
\* their parts.
CartProducts ==
    { [id |-> <<"p">>, price |-> 30], [id |-> <<"q">>, price |-> 5] }
NoVariant == <<>>
Variants == { NoVariant, <<"default">>, <<"red">> }

\* `${product.id}_${variant || 'default'}`
CartItemId(product, variant) ==
    product.id \o <<"_">> \o (IF variant # NoVariant THEN variant ELSE <<"default">>)

CartItemIds == { CartItemId(p, v) : p \in CartProducts, v \in Variants }

\* Carts the server sends to syncCartFromServer.
SyncPayloads ==
    { <<>>,
      << [ id |-> <<"q", "_", "default">>,
           product |-> [id |-> <<"q">>, price |-> 5],
           quantity |-> 2, variant |-> NoVariant, addedAt |-> 0 ] >> }

\* items.reduce((total, item) => total + item.quantity, 0)
RECURSIVE SumQuantity(_)
SumQuantity(items) ==
    IF items = <<>> THEN 0
    ELSE SumQuantity(SubSeq(items, 1, Len(items) - 1)) + items[Len(items)].quantity

\* items.reduce((total, item) => total + (item.product.price * item.quantity), 0)
RECURSIVE SumPrice(_)
SumPrice(items) ==
    IF items = <<>> THEN 0
    ELSE SumPrice(SubSeq(items, 1, Len(items) - 1))
            + items[Len(items)].product.price * items[Len(items)].quantity

\* As calculateTotals, but adding to the totals the cart already shows.
calculateTotals_Accumulate(c) ==
    [c EXCEPT !.totalItems = @ + SumQuantity(c.items),
              !.totalPrice = @ + SumPrice(c.items)]

\* calculateTotals
calculateTotals(c) ==
    [c EXCEPT !.totalItems = SumQuantity(c.items),
              !.totalPrice = SumPrice(c.items)]

\* The least position of a set of positions, or 0 when there is none:
\* what find returns among the items that satisfy its test.
FirstOf(S) == IF S = {} THEN 0 ELSE CHOOSE i \in S : \A j \in S : i <= j

\* items.find(item => item.product.id === product.id && item.variant === variant)
FindSame(items, product, variant) ==
    FirstOf({ i \in 1..Len(items) :
                items[i].product.id = product.id /\ items[i].variant = variant })

\* items.find(item => item.id === itemId)
FindItem(items, itemId) ==
    FirstOf({ i \in 1..Len(items) : items[i].id = itemId })

\* items.filter(item => item.id !== itemId)
RECURSIVE WithoutId(_, _)
WithoutId(items, itemId) ==
    IF items = <<>> THEN <<>>
    ELSE IF Head(items).id = itemId THEN WithoutId(Tail(items), itemId)
    ELSE <<Head(items)>> \o WithoutId(Tail(items), itemId)

--------------------------------------------------------------------------
(* The User model's login lockout *)

\* 2 * 60 * 60 * 1000 ms, in the clock's seconds
LockTime == 2 * 60 * 60

\* this.loginAttempts + 1 >= 5
LockThreshold == 5

\* The instants the clock visits while logins are followed: the start, the
\* last instant of a lock set at the start, and instants after it.
LoginInstants ==
    <<0, LockTime, LockTime + 1, 2 * LockTime + 1, 2 * LockTime + 2>>

LoginTimes == { LoginInstants[i] : i \in 1..Min(NLoginInstants, Len(LoginInstants)) }

\* A user as registered: loginAttempts defaults to 0, lockUntil is absent.
\* An unset loginAttempts reads as its default.
NewAccount == [ loginAttempts |-> 0, lockUntil |-> None, lastLogin |-> None ]

\* A login request that has not started.  status 0: not answered.
NoLogin == [ pc |-> "idle", user |-> NewAccount, status |-> 0 ]

\* As isLocked, but no account ever counts as locked.
isLocked_Never(u, t) == FALSE

\* virtual isLocked: !!(this.lockUntil && this.lockUntil > Date.now())
isLocked(u, t) == u.lockUntil # None /\ u.lockUntil > t

\* incLoginAttempts: the update document built from the copy u at time t.
\* set/unset/inc are the operators of the update; None: operator absent.
IncUpdate(u, t) ==
    IF u.lockUntil # None /\ u.lockUntil < t
    THEN [ unsetLock |-> TRUE, setAttempts |-> 1, inc |-> 0, setLock |-> None ]
    ELSE [ unsetLock |-> FALSE, setAttempts |-> None, inc |-> 1,
           setLock |-> IF u.loginAttempts + 1 >= LockThreshold /\ ~isLocked(u, t)
                       THEN t + LockTime ELSE None ]

\* resetLoginAttempts: $unset loginAttempts and lockUntil, $set lastLogin
ResetUpdate(a, t) ==
    [a EXCEPT !.loginAttempts = 0, !.lockUntil = None, !.lastLogin = t]

\* updateOne(upd) as the database applies it to the stored document a
ApplyUpdate(a, upd) ==
    [a EXCEPT
        !.loginAttempts = IF upd.setAttempts # None THEN upd.setAttempts
                          ELSE @ + upd.inc,
        !.lockUntil = IF upd.unsetLock THEN None
                      ELSE IF upd.setLock # None THEN upd.setLock ELSE @]

--------------------------------------------------------------------------
(* The auth middleware *)

\* The users collection as User.findById sees it: two active users, an
\* inactive one, and no user 4.
NoUser == [ id |-> 0, role |-> "", isActive |-> FALSE ]
UserIds == 1..4
findById(userId) ==
    CASE userId = 1 -> [ id |-> 1, role |-> "customer", isActive |-> TRUE ]
      [] userId = 2 -> [ id |-> 2, role |-> "seller", isActive |-> TRUE ]
      [] userId = 3 -> [ id |-> 3, role |-> "admin", isActive |-> FALSE ]
      [] OTHER -> NoUser

\* An Authorization header is a string, here the sequence of its parts: the
\* text 'Bearer ' and tokens.  A token is well signed and current for a user
\* id ("valid"), not a token of this server ("malformed"), past its expiry
\* ("expired") or before its nbf ("early").
BearerPart == [ kind |-> "Bearer ", userId |-> 0 ]
Tokens ==
    { [ kind |-> "valid", userId |-> u ] : u \in UserIds }
        \cup { [ kind |-> k, userId |-> 0 ] : k \in {"malformed", "expired", "early"} }

\* req.header('Authorization'): absent, or a string
NoHeader == [ present |-> FALSE, parts |-> <<>> ]
Header(parts) == [ present |-> TRUE, parts |-> parts ]
Headers ==
    { NoHeader, Header(<<>>), Header(<<BearerPart>>) }
        \cup { Header(<<BearerPart, t>>) : t \in Tokens }
        \cup { Header(<<[kind |-> "valid", userId |-> 1]>>),
               Header(<<BearerPart, BearerPart, [kind |-> "valid", userId |-> 1]>>) }

\* str.replace(part, ''): the string without the first occurrence of part
RECURSIVE Replace(_, _)
Replace(parts, part) ==
    IF parts = <<>> THEN <<>>
    ELSE IF Head(parts) = part THEN Tail(parts)
    ELSE <<Head(parts)>> \o Replace(Tail(parts), part)

\* req.header('Authorization')?.replace('Bearer ', ''); <<>> is falsy
TokenOf(header) ==
    IF header.present THEN Replace(header.parts, BearerPart) ELSE <<>>

\* jwt.verify(token, secret): the name of the error thrown, "" for none
VerifyError(token) ==
    IF Len(token) # 1 THEN "JsonWebTokenError"
    ELSE CASE token[1].kind = "valid"   -> ""
           [] token[1].kind = "expired" -> "TokenExpiredError"
           [] token[1].kind = "early"   -> "NotBeforeError"
           [] OTHER -> "JsonWebTokenError"

\* the catch block: the status answered for an error by name
CaughtStatus(name) ==
    IF name = "JsonWebTokenError" THEN 401
    ELSE IF name = "TokenExpiredError" THEN 401
    ELSE 500

\* As Passes, but letting through every user that exists.
Passes_AnyUser(user) == user # NoUser

\* the negation of `!user || !user.isActive`
Passes(user) == user # NoUser /\ user.isActive

\* A request before any middleware ran: no req.user, no answer (status 0),
\* next() not called by any middleware.
NoRequest ==
    [ pc |-> "idle", header |-> NoHeader, decoded |-> 0, user |-> NoUser,
      userId |-> 0, status |-> 0, nexts |-> 0, authNext |-> FALSE ]

Roles == {"customer", "seller", "admin"}
RoleSets == { {"admin"}, {"seller", "admin"}, Roles }

--------------------------------------------------------------------------
(* The chat widget *)

Sends == 1..MaxSends

\* initialState of the chatbot slice, the fields sendMessage touches
EmptyChat == [ messages |-> <<>>, loading |-> FALSE ]

\* A call of sendMessage that has not been made.
NoSend == [ pc |-> "idle", reply |-> <<>> ]

\* What the user types: strings as sequences of characters.
Typed == { <<>>, <<" ">>, <<"h", "i">>, <<" ", "o", "k", " ">> }

\* What the assistant answers.
ReplyTexts == { <<"y", "e", "s">> }
ErrorText == <<"e", "r", "r">>

\* String.prototype.trim
RECURSIVE TrimStart(_)
TrimStart(str) ==
    IF str # <<>> /\ Head(str) = " " THEN TrimStart(Tail(str)) ELSE str

RECURSIVE TrimEnd(_)
TrimEnd(str) ==
    IF str # <<>> /\ str[Len(str)] = " "
    THEN TrimEnd(SubSeq(str, 1, Len(str) - 1)) ELSE str

trim(str) == TrimEnd(TrimStart(str))

\* The message objects sendMessage builds.  `of` is history: the call that
\* built the message.
UserMessage(k, text, t) ==
    [ id |-> t, text |-> text, sender |-> "user", isError |-> FALSE, of |-> k ]
BotMessage(k, text, t) ==
    [ id |-> t + 1, text |-> text, sender |-> "bot", isError |-> FALSE, of |-> k ]
ErrorMessage(k, t) ==
    [ id |-> t + 1, text |-> ErrorText, sender |-> "bot", isError |-> TRUE, of |-> k ]

\* reducer addMessage
addMessage(c, m) == [c EXCEPT !.messages = Append(@, m)]

\* As setLoading, but never lowering the flag.
setLoading_OnlyRaise(c, flag) == [c EXCEPT !.loading = @ \/ flag]

\* reducer setLoading
setLoading(c, flag) == [c EXCEPT !.loading = flag]

--------------------------------------------------------------------------
(* Initial state *)

Init ==
    /\ now = 0
    /\ db = <<>>
    /\ rev = <<>>
    /\ pc = [r \in Req |-> "idle"]
    /\ doc = [r \in Req |-> NoDoc]
    /\ cnt = [r \in Req |-> 0]
    /\ date = [r \in Req |-> 0]
    /\ target = [r \in Req |-> 0]
    /\ seenRev = [r \in Req |-> 0]
    /\ err = [r \in Req |-> "none"]
    /\ orders = <<>>
    /\ currentOrder = NoOrder
    /\ cart = EmptyCart
    /\ account = NewAccount
    /\ login = [r \in Req |-> NoLogin]
    /\ auth = [r \in Req |-> NoRequest]
    /\ chat = EmptyChat
    /\ widget = [ message |-> <<>>, isTyping |-> FALSE ]
    /\ sends = [k \in Sends |-> NoSend]

--------------------------------------------------------------------------
(* Actions *)

\* Time passes: the clock moves to a later instant of T.
Tick(T) ==
    /\ \E t \in T : t > now /\ now' = t
    /\ UNCHANGED <<serverVars, clientVars, cartVars, loginVars, authVars, chatVars>>

InFlightCreations == Cardinality({ r \in Req : pc[r] = "counted" })

\* new Order(tpl).save(), up to the await in the order-number hook: the
\* timestamps hook of the schema stamps createdAt, then the order-number hook
\* captures the date and counts the orders created on that day.
CreateCount(r, tpl, limit) ==
    /\ pc[r] = "idle"
    /\ Len(db) + InFlightCreations < limit
    /\ pc' = [pc EXCEPT ![r] = "counted"]
    /\ doc' = [doc EXCEPT ![r] = [NewOrder(tpl) EXCEPT !.createdAt = now]]
    /\ date' = [date EXCEPT ![r] = now]
    /\ cnt' = [cnt EXCEPT ![r] = countDocuments(now)]
    /\ err' = [err EXCEPT ![r] = "none"]
    /\ UNCHANGED <<db, rev, target, seenRev>>
    /\ UNCHANGED notServer

\* The rest of that save: the number is assigned, the totals hook runs, and the
\* document is inserted unless the unique index rejects it.
CreateSave(r) ==
    /\ pc[r] = "counted"
    /\ LET d == PreSaveTotals(PreSaveOrderNumber(doc[r], date[r], cnt[r])) IN
       IF UniqueOk(d)
       THEN /\ db' = Append(db, Stored(d))
            /\ rev' = Append(rev, 0)
            /\ doc' = [doc EXCEPT ![r] = Stored(d)]
            /\ target' = [target EXCEPT ![r] = Len(db) + 1]
            /\ seenRev' = [seenRev EXCEPT ![r] = 0]
            /\ pc' = [pc EXCEPT ![r] = "loaded"]
            /\ err' = [err EXCEPT ![r] = "none"]
       ELSE /\ doc' = [doc EXCEPT ![r] = d]
            /\ pc' = [pc EXCEPT ![r] = "failed"]
            /\ err' = [err EXCEPT ![r] = "E11000"]
            /\ UNCHANGED <<db, rev, target, seenRev>>
    /\ cnt' = [cnt EXCEPT ![r] = 0]
    /\ date' = [date EXCEPT ![r] = 0]
    /\ UNCHANGED notServer

\* A handler loads stored order o (Order.findOne): it gets a copy of the record.
Load(r, o) ==
    /\ pc[r] = "idle"
    /\ o \in 1..Len(db)
    /\ doc' = [doc EXCEPT ![r] = db[o]]
    /\ target' = [target EXCEPT ![r] = o]
    /\ seenRev' = [seenRev EXCEPT ![r] = rev[o]]
    /\ pc' = [pc EXCEPT ![r] = "loaded"]
    /\ err' = [err EXCEPT ![r] = "none"]
    /\ UNCHANGED <<db, rev, cnt, date>>
    /\ UNCHANGED notServer

\* save() of the stored document d that handler r holds.  Validation runs
\* first; then the two hooks (a stored document has its number, so the first
\* hook counts nothing); then the update.  seenRev stays equal to rev
\* exactly when the handler wrote on top of the state it had read.
SaveExisting(r, d) ==
    IF Validate(d)
    THEN LET d2 == PreSaveTotals(PreSaveOrderNumber(d, now, 0)) IN
         /\ db' = [db EXCEPT ![target[r]] = ApplyDirty(@, d2)]
         /\ rev' = [rev EXCEPT ![target[r]] = @ + 1]
         /\ seenRev' = [seenRev EXCEPT ![r] =
                IF @ = rev[target[r]] THEN @ + 1 ELSE @]
         /\ doc' = [doc EXCEPT ![r] = Stored(d2)]
         /\ err' = [err EXCEPT ![r] = "none"]
    ELSE /\ doc' = [doc EXCEPT ![r] = d]
         /\ err' = [err EXCEPT ![r] = "ValidationError"]
         /\ UNCHANGED <<db, rev, seenRev>>

\* order.updateStatus(newStatus) on the loaded document
updateStatus(r, newStatus) ==
    /\ pc[r] = "loaded"
    /\ rev[target[r]] < MaxWrites
    /\ SaveExisting(r, UpdateStatusFields(doc[r], newStatus, now))
    /\ UNCHANGED <<pc, cnt, date, target>>
    /\ UNCHANGED notServer

\* The caller writes subtotal and total of the loaded document directly.
Tamper(r, st, tt) ==
    /\ pc[r] = "loaded"
    /\ doc' = [doc EXCEPT ![r] = SetPath(SetPath(@, "subtotal", st), "total", tt)]
    /\ UNCHANGED <<db, rev, pc, cnt, date, target, seenRev, err>>
    /\ UNCHANGED notServer

\* The caller writes the status of item i of the loaded document.
SetItemStatus(r, i, s) ==
    /\ pc[r] = "loaded"
    /\ i \in 1..Len(doc[r].items)
    /\ doc' = [doc EXCEPT ![r] =
            SetPath(@, "items", [@.items EXCEPT ![i].status = s])]
    /\ UNCHANGED <<db, rev, pc, cnt, date, target, seenRev, err>>
    /\ UNCHANGED notServer

\* A return request for stored order o is accepted while canBeReturned holds
\* and appended to the order's returns in one atomic update.
createReturn(o, items, reason) ==
    /\ o \in 1..Len(db)
    /\ Len(db[o].returns) < MaxReturns
    /\ canBeReturned(db[o], now)
    /\ db' = [db EXCEPT ![o].returns = Append(@, NewReturn(items, reason, now))]
    /\ UNCHANGED <<rev, pc, doc, cnt, date, target, seenRev, err>>
    /\ UNCHANGED notServer

\* An explicit action moves return i of stored order o one step, in one
\* atomic update; a step the machine does not have is refused.
advanceReturn(o, i, to) ==
    /\ o \in 1..Len(db)
    /\ i \in 1..Len(db[o].returns)
    /\ ReturnStepAllowed(db[o].returns[i].status, to)
    /\ db' = [db EXCEPT ![o].returns[i] = ReturnAdvanced(db[o], @, to, now)]
    /\ UNCHANGED <<rev, pc, doc, cnt, date, target, seenRev, err>>
    /\ UNCHANGED notServer

\* order.save() on the loaded document
CallSave(r) ==
    /\ pc[r] = "loaded"
    /\ rev[target[r]] < MaxWrites
    /\ doc[r].dirty # {}
    /\ SaveExisting(r, doc[r])
    /\ UNCHANGED <<pc, cnt, date, target>>
    /\ UNCHANGED notServer

\* The handler ends and drops its document.
Release(r) ==
    /\ pc[r] \in {"loaded", "failed"}
    /\ pc' = [pc EXCEPT ![r] = "idle"]
    /\ doc' = [doc EXCEPT ![r] = NoDoc]
    /\ cnt' = [cnt EXCEPT ![r] = 0]
    /\ date' = [date EXCEPT ![r] = 0]
    /\ target' = [target EXCEPT ![r] = 0]
    /\ seenRev' = [seenRev EXCEPT ![r] = 0]
    /\ err' = [err EXCEPT ![r] = "none"]
    /\ UNCHANGED <<db, rev>>
    /\ UNCHANGED notServer

--------------------------------------------------------------------------
(* Client actions: one per reducer *)

\* addOrder: state.orders.unshift(payload)
addOrder(payload) ==
    /\ Len(orders) < MaxClientOrders
    /\ orders' = <<payload>> \o orders
    /\ UNCHANGED currentOrder
    /\ UNCHANGED notClient

\* setCurrentOrder
setCurrentOrder(payload) ==
    /\ currentOrder # payload
    /\ currentOrder' = payload
    /\ UNCHANGED orders
    /\ UNCHANGED notClient

\* clearCurrentOrder
clearCurrentOrder ==
    /\ currentOrder # NoOrder
    /\ currentOrder' = NoOrder
    /\ UNCHANGED orders
    /\ UNCHANGED notClient

\* updateOrderStatus({orderId, status, timestamp})
updateOrderStatus(orderId, status, timestamp) ==
    /\ IsListed(orderId) => Len(Listed(orderId).statusHistory) < MaxHistory
    /\ orders' =
        IF IsListed(orderId)
        THEN OnListed(orderId, StatusOnListed(Listed(orderId), status, timestamp, now))
        ELSE orders
    /\ currentOrder' =
        IF IsCurrent(orderId)
        THEN StatusOnCurrent(currentOrder, status, timestamp, now)
        ELSE currentOrder
    /\ UNCHANGED notClient

\* cancelOrder({orderId, reason})
cancelOrder(orderId, reason) ==
    /\ orders' =
        IF IsListed(orderId)
        THEN OnListed(orderId, Cancelled(Listed(orderId), reason, now))
        ELSE orders
    /\ currentOrder' =
        IF IsCurrent(orderId) THEN Cancelled(currentOrder, reason, now)
        ELSE currentOrder
    /\ UNCHANGED notClient

\* updatePaymentStatus({orderId, paymentStatus, transactionId})
updatePaymentStatus(orderId, paymentStatus, transactionId) ==
    /\ orders' =
        IF IsListed(orderId)
        THEN OnListed(orderId,
                WithPayment(Listed(orderId), paymentStatus, transactionId, now))
        ELSE orders
    /\ currentOrder' =
        IF IsCurrent(orderId)
        THEN WithPayment(currentOrder, paymentStatus, transactionId, now)
        ELSE currentOrder
    /\ UNCHANGED notClient

\* receiveOrderUpdate({orderId, data}): Object.assign on both copies
receiveOrderUpdate(orderId, data) ==
    /\ orders' =
        IF IsListed(orderId)
        THEN OnListed(orderId, Assigned(Listed(orderId), data))
        ELSE orders
    /\ currentOrder' =
        IF IsCurrent(orderId) THEN Assigned(currentOrder, data)
        ELSE currentOrder
    /\ UNCHANGED notClient

\* requestReturn({orderId, items, reason}), while no copy of the order holds
\* limit returns yet
requestReturnUpTo(orderId, items, reason, limit) ==
    /\ IsListed(orderId) => Len(Listed(orderId).returns) < limit
    /\ IsCurrent(orderId) => Len(currentOrder.returns) < limit
    /\ orders' =
        IF IsListed(orderId)
        THEN OnListed(orderId, WithReturn(Listed(orderId), items, reason, now))
        ELSE orders
    /\ currentOrder' =
        IF IsCurrent(orderId) THEN WithReturn(currentOrder, items, reason, now)
        ELSE currentOrder
    /\ UNCHANGED notClient

requestReturn(orderId, items, reason) ==
    requestReturnUpTo(orderId, items, reason, MaxReturns)

--------------------------------------------------------------------------
(* Cart actions: one per reducer *)

\* addToCart({product, quantity, variant})
addToCart(product, quantity, variant) ==
    LET i == FindSame(cart.items, product, variant)
    IN  /\ IF i # 0
           THEN cart.items[i].quantity + quantity <= MaxQuantity
           ELSE Len(cart.items) < MaxCartItems
        /\ cart' = calculateTotals(
              IF i # 0
              THEN [cart EXCEPT !.items[i].quantity = @ + quantity]
              ELSE [cart EXCEPT !.items = Append(@,
                      [ id |-> CartItemId(product, variant), product |-> product,
                        quantity |-> quantity, variant |-> variant,
                        addedAt |-> now ])])
        /\ UNCHANGED notCart

\* removeFromCart(itemId)
removeFromCart(itemId) ==
    /\ cart' = calculateTotals([cart EXCEPT !.items = WithoutId(@, itemId)])
    /\ UNCHANGED notCart

\* updateQuantity({itemId, quantity})
updateQuantity(itemId, quantity) ==
    LET i == FindItem(cart.items, itemId)
    IN  /\ cart' = calculateTotals(
              IF i = 0 THEN cart
              ELSE IF quantity <= 0
                   THEN [cart EXCEPT !.items = WithoutId(@, itemId)]
                   ELSE [cart EXCEPT !.items[i].quantity = quantity])
        /\ UNCHANGED notCart

\* clearCart
clearCart ==
    /\ cart' = [cart EXCEPT !.items = <<>>, !.totalItems = 0, !.totalPrice = 0]
    /\ UNCHANGED notCart

\* setCartLoading(flag)
setCartLoading(flag) ==
    /\ cart' = [cart EXCEPT !.loading = flag]
    /\ UNCHANGED notCart

\* setCartError(message)
setCartError(message) ==
    /\ cart' = [cart EXCEPT !.error = message, !.loading = FALSE]
    /\ UNCHANGED notCart

\* syncCartFromServer(items)
syncCartFromServer(items) ==
    /\ cart' = calculateTotals([cart EXCEPT !.items = items])
    /\ UNCHANGED notCart

--------------------------------------------------------------------------
(* Login: router.post('/login'), one action per stretch between awaits *)

\* From the start to `await user.comparePassword(password)`: the user is
\* read, a missing user is answered 401 and a locked one 423.  (Accounts
\* here are active.)
LoginFind(r, known) ==
    /\ login[r].pc = "idle"
    /\ login' = [login EXCEPT ![r] =
          IF ~known THEN [pc |-> "done", user |-> NewAccount, status |-> 401]
          ELSE IF isLocked(account, now)
               THEN [pc |-> "done", user |-> account, status |-> 423]
               ELSE [pc |-> "comparing", user |-> account, status |-> 0]]
    /\ UNCHANGED <<account, notLogin>>

\* From the password comparison's result to the answer: a wrong password
\* sends the update incLoginAttempts builds from the request's copy of the
\* user, a right one the update of resetLoginAttempts.
LoginCompare(r, isValidPassword) ==
    /\ login[r].pc = "comparing"
    /\ IF isValidPassword
       THEN /\ account' = ResetUpdate(account, now)
            /\ login' = [login EXCEPT ![r].pc = "done", ![r].status = 200]
       ELSE /\ account.loginAttempts < MaxLoginAttempts
            /\ account' = ApplyUpdate(account, IncUpdate(login[r].user, now))
            /\ login' = [login EXCEPT ![r].pc = "done", ![r].status = 401]
    /\ UNCHANGED notLogin

\* The answer is sent; the next request of this client can start.
LoginAnswered(r) ==
    /\ login[r].pc = "done"
    /\ login' = [login EXCEPT ![r] = NoLogin]
    /\ UNCHANGED <<account, notLogin>>

--------------------------------------------------------------------------
(* Auth middleware actions *)

\* authMiddleware up to `await User.findById(decoded.userId)`
authMiddleware(r, header) ==
    LET token == TokenOf(header)
        name == VerifyError(token)
    IN  /\ auth[r].pc = "idle"
        /\ auth' = [auth EXCEPT ![r] =
              IF token = <<>>
              THEN [@ EXCEPT !.pc = "answered", !.header = header, !.status = 401]
              ELSE IF name # ""
              THEN [@ EXCEPT !.pc = "answered", !.header = header,
                             !.status = CaughtStatus(name)]
              ELSE [@ EXCEPT !.pc = "finding", !.header = header,
                             !.decoded = token[1].userId]]
        /\ UNCHANGED notAuth

\* authMiddleware after the await: the lookup failed (the query rejected)
\* or returned a user or null
authFound(r, queryFails) ==
    LET user == findById(auth[r].decoded) IN
    /\ auth[r].pc = "finding"
    /\ auth' = [auth EXCEPT ![r] =
          IF queryFails
          THEN [@ EXCEPT !.pc = "answered", !.status = CaughtStatus("MongoError")]
          ELSE IF ~Passes(user)
          THEN [@ EXCEPT !.pc = "answered", !.status = 401]
          ELSE [@ EXCEPT !.pc = "passed", !.userId = auth[r].decoded,
                         !.user = user, !.nexts = @ + 1, !.authNext = TRUE]]
    /\ UNCHANGED notAuth

\* authorize(...roles), mounted after authMiddleware or on its own
authorize(r, roles) ==
    /\ auth[r].pc \in {"idle", "passed"}
    /\ auth' = [auth EXCEPT ![r] =
          IF auth[r].user = NoUser
          THEN [@ EXCEPT !.pc = "answered", !.status = 401]
          ELSE IF auth[r].user.role \notin roles
          THEN [@ EXCEPT !.pc = "answered", !.status = 403]
          ELSE [@ EXCEPT !.pc = "authorized", !.nexts = @ + 1]]
    /\ UNCHANGED notAuth

\* The request is over; the handler takes the next one.
authDone(r) ==
    /\ auth[r].pc \in {"answered", "authorized"}
    /\ auth' = [auth EXCEPT ![r] = NoRequest]
    /\ UNCHANGED notAuth

--------------------------------------------------------------------------
(* Chat widget actions *)

\* The user edits the input field.
setMessage(text) ==
    /\ widget' = [widget EXCEPT !.message = text]
    /\ UNCHANGED <<chat, sends, notChat>>

\* sendMessage up to `await chatbotAPI.sendMessage(...)`; calls are numbered
\* in the order they are made.
sendMessage(k) ==
    /\ sends[k].pc = "idle"
    /\ \A j \in 1..(k - 1) : sends[j].pc # "idle"
    /\ IF trim(widget.message) = <<>>
       THEN UNCHANGED <<chat, widget, sends>>
       ELSE /\ chat' = setLoading(addMessage(chat,
                          UserMessage(k, widget.message, now)), TRUE)
            /\ widget' = [message |-> <<>>, isTyping |-> TRUE]
            /\ sends' = [sends EXCEPT ![k].pc = "awaiting"]
    /\ UNCHANGED notChat

\* The request of call k settles.  Resolved with a reply: the bot message is
\* built and a timer of one second set.  Rejected, or resolved without
\* response data: the catch block adds the error message.
replySettles(k, resolved, text) ==
    /\ sends[k].pc = "awaiting"
    /\ IF resolved
       THEN /\ sends' = [sends EXCEPT ![k] = [pc |-> "typing", reply |-> text]]
            /\ UNCHANGED <<chat, widget>>
       ELSE /\ chat' = setLoading(addMessage(chat, ErrorMessage(k, now)), FALSE)
            /\ widget' = [widget EXCEPT !.isTyping = FALSE]
            /\ sends' = [sends EXCEPT ![k].pc = "done"]
    /\ UNCHANGED notChat

\* The timer of call k fires.
typingDone(k) ==
    /\ sends[k].pc = "typing"
    /\ chat' = setLoading(addMessage(chat,
                  BotMessage(k, sends[k].reply, now)), FALSE)
    /\ widget' = [widget EXCEPT !.isTyping = FALSE]
    /\ sends' = [sends EXCEPT ![k].pc = "done"]
    /\ UNCHANGED notChat

--------------------------------------------------------------------------
(* Specifications *)

\* The life cycle of an order: creation, then status changes by concurrent handlers.
Next ==
    \/ Tick(Times)
    \/ \E r \in Req, tpl \in Templates : CreateCount(r, tpl, MaxTracked)
    \/ \E r \in Req : CreateSave(r)
    \/ \E r \in Req, o \in 1..MaxTracked : Load(r, o)
    \/ \E r \in Req, s \in StatusArgs : updateStatus(r, s)
    \/ \E r \in Req, st \in TamperValues, tt \in TamperValues : Tamper(r, st, tt)
    \/ \E r \in Req : CallSave(r)
    \/ \E r \in Req : Release(r)

Spec == Init /\ [][Next]_vars

\* Status changes only: orders are created and loaded, and every change goes
\* through updateStatus.
NextStatus ==
    \/ Tick(Times)
    \/ \E r \in Req, tpl \in Templates : CreateCount(r, tpl, MaxTracked)
    \/ \E r \in Req : CreateSave(r)
    \/ \E r \in Req, o \in 1..MaxTracked : Load(r, o)
    \/ \E r \in Req, s \in Statuses : updateStatus(r, s)
    \/ \E r \in Req : Release(r)

SpecStatus == Init /\ [][NextStatus]_vars

\* Concurrent checkouts: order creation only.
NextCreate ==
    \/ Tick(Times)
    \/ \E r \in Req, tpl \in Templates : CreateCount(r, tpl, MaxOrders)
    \/ \E r \in Req : CreateSave(r)
    \/ \E r \in Req : Release(r)

SpecCreate == Init /\ [][NextCreate]_vars

\* Orders of any item list, and item statuses written next to order statuses.
NextItems ==
    \/ \E r \in Req, tpl \in Templates \cup {EmptyCheckout} :
          CreateCount(r, tpl, MaxTracked)
    \/ \E r \in Req : CreateSave(r)
    \/ \E r \in Req, o \in 1..MaxTracked : Load(r, o)
    \/ \E r \in Req, i \in 1..MaxItems, s \in ItemStatusArgs : SetItemStatus(r, i, s)
    \/ \E r \in Req : CallSave(r)
    \/ \E r \in Req, s \in AfterItemArgs : updateStatus(r, s)
    \/ \E r \in Req : Release(r)

SpecItems == Init /\ [][NextItems]_vars

\* Returns: one handler creates an order and delivers it, and return requests
\* are made and moved along.
NextReturns ==
    \/ Tick(ClientTimes)
    \/ \E tpl \in Templates : CreateCount(1, tpl, MaxTracked)
    \/ CreateSave(1)
    \/ updateStatus(1, "delivered")
    \/ \E o \in 1..MaxTracked : createReturn(o, <<1>>, "damaged")
    \/ \E o \in 1..MaxTracked, i \in 1..MaxReturns, to \in ReturnStatuses :
          advanceReturn(o, i, to)

SpecReturns == Init /\ [][NextReturns]_vars

\* The browser's order store.
NextClient ==
    \/ Tick(ClientTimes)
    \/ \E p \in ClientPayloads : addOrder(p)
    \/ \E p \in ClientPayloads : setCurrentOrder(p)
    \/ clearCurrentOrder
    \/ \E id \in ClientIds, s \in Statuses, ts \in TimestampArgs :
          updateOrderStatus(id, s, ts)
    \/ \E id \in ClientIds : cancelOrder(id, "changed my mind")
    \/ \E id \in ClientIds : requestReturn(id, <<1>>, "damaged")

SpecClient == Init /\ [][NextClient]_vars

\* The browser's order store with an order held twice, in the list and as
\* the current order.
NextMirror ==
    \/ \E p \in MirrorPayloads : addOrder(p)
    \/ \E p \in MirrorPayloads : setCurrentOrder(p)
    \/ \E id \in MirrorIds : updateOrderStatus(id, "shipped", None)
    \/ \E id \in MirrorIds : cancelOrder(id, "changed my mind")
    \/ \E id \in MirrorIds, tx \in TransactionIds :
          updatePaymentStatus(id, "completed", tx)
    \/ \E id \in MirrorIds :
          requestReturnUpTo(id, <<1>>, "damaged", MaxReturns + 1)
    \/ \E id \in MirrorIds, data \in UpdateData : receiveOrderUpdate(id, data)

SpecMirror == Init /\ [][NextMirror]_vars

\* The cart under every reducer.
NextCart ==
    \/ \E p \in CartProducts, q \in 1..2, v \in Variants : addToCart(p, q, v)
    \/ \E id \in CartItemIds : removeFromCart(id)
    \/ \E id \in CartItemIds, q \in {0, MaxQuantity} : updateQuantity(id, q)
    \/ clearCart
    \/ \E flag \in BOOLEAN : setCartLoading(flag)
    \/ setCartError("network")
    \/ \E items \in SyncPayloads : syncCartFromServer(items)

SpecCart == Init /\ [][NextCart]_vars

\* The cart, starting empty, under the reducers that edit single items.
NextCartEdit ==
    \/ \E p \in CartProducts, q \in 1..2, v \in Variants : addToCart(p, q, v)
    \/ \E id \in CartItemIds : removeFromCart(id)
    \/ \E id \in CartItemIds, q \in {0, MaxQuantity} : updateQuantity(id, q)

SpecCartEdit == Init /\ [][NextCartEdit]_vars

\* Logins one after the other: a request starts when the one before it has
\* been answered.
NextLogin ==
    \/ Tick(LoginTimes)
    \/ \E known \in BOOLEAN : LoginFind(1, known)
    \/ \E ok \in BOOLEAN : LoginCompare(1, ok)
    \/ LoginAnswered(1)

SpecLogin == Init /\ [][NextLogin]_vars

\* Logins on one account handled concurrently.
NextLoginRace ==
    \/ Tick(LoginTimes)
    \/ \E r \in Req : LoginFind(r, TRUE)
    \/ \E r \in Req, ok \in BOOLEAN : LoginCompare(r, ok)
    \/ \E r \in Req : LoginAnswered(r)

SpecLoginRace == Init /\ [][NextLoginRace]_vars

\* Requests through the auth middleware.
NextAuth ==
    \/ \E r \in Req, header \in Headers : authMiddleware(r, header)
    \/ \E r \in Req, queryFails \in BOOLEAN : authFound(r, queryFails)
    \/ \E r \in Req, roles \in RoleSets : authorize(r, roles)
    \/ \E r \in Req : authDone(r)

SpecAuth == Init /\ [][NextAuth]_vars

\* The chat widget: every request settles and every timer fires.
NextChat ==
    \/ \E text \in Typed : setMessage(text)
    \/ \E k \in Sends : sendMessage(k)
    \/ \E k \in Sends, resolved \in BOOLEAN, text \in ReplyTexts :
          replySettles(k, resolved, text)
    \/ \E k \in Sends : typingDone(k)

SpecChat ==
    /\ Init /\ [][NextChat]_vars
    /\ \A k \in Sends :
          /\ WF_vars(\E resolved \in BOOLEAN, text \in ReplyTexts :
                        replySettles(k, resolved, text))
          /\ WF_vars(typingDone(k))

\* The browser's order store under payment updates.
NextPayment ==
    \/ Tick(ClientTimes)
    \/ \E p \in PaymentPayloads : addOrder(p)
    \/ \E p \in PaymentPayloads : setCurrentOrder(p)
    \/ \E id \in ClientIds, ps \in PaymentStatusArgs, tx \in TransactionIds :
          updatePaymentStatus(id, ps, tx)

SpecPayment == Init /\ [][NextPayment]_vars

--------------------------------------------------------------------------
(* Properties *)

StoredIds == 1..Len(db)

\* The sum of price * quantity over the lines of an order, by index.
RECURSIVE LineSum(_, _)
LineSum(items, n) ==
    IF n = 0 THEN 0
    ELSE items[n].price * items[n].quantity + LineSum(items, n - 1)

\* C1: every stored order has subtotal = sum of price * quantity over its
\* items and total = subtotal + tax + shipping - discount, after its creation
\* and after every later save, whatever the caller wrote into subtotal and
\* total beforehand.
C1_TotalsReconciled ==
    \A o \in StoredIds :
        /\ db[o].subtotal = LineSum(db[o].items, Len(db[o].items))
        /\ db[o].total = db[o].subtotal + db[o].tax + db[o].shipping - db[o].discount

\* An order whose creator passed wrong totals (999 and 1) is stored, has been
\* shipped by a later updateStatus, and its holder has overwritten subtotal
\* and total in memory and saved again.
C1_Witness ==
    /\ Len(db) >= 1
    /\ db[1].discount = 15
    /\ db[1].status = "shipped"
    /\ rev[1] >= 2
    /\ \E r \in Req : pc[r] = "loaded" /\ target[r] = 1 /\ doc[r].subtotal = 7

LegalTransitions ==
    { <<"pending", "confirmed">>, <<"confirmed", "processing">>,
      <<"processing", "shipped">>, <<"shipped", "delivered">>,
      <<"pending", "cancelled">>, <<"confirmed", "cancelled">>,
      <<"delivered", "returned">> }

\* C2: every change of a stored order's status follows the legal-transition
\* table; in particular no order leaves cancelled.
C2_TransitionLaw ==
    [][ \A o \in StoredIds :
            db'[o].status # db[o].status
                => <<db[o].status, db'[o].status>> \in LegalTransitions ]_vars

\* C3: no two stored orders have the same orderNumber.
C3_DistinctNumbers ==
    \A o1 \in StoredIds, o2 \in StoredIds :
        o1 # o2 => db[o1].orderNumber # db[o2].orderNumber

\* Two checkouts of one day counted the same number of orders and generated
\* the same number: one is stored, the other's insert was rejected.
C3_Witness ==
    \E r \in Req, o \in StoredIds :
        /\ pc[r] = "failed"
        /\ err[r] = "E11000"
        /\ doc[r].orderNumber = db[o].orderNumber
        /\ StartOfDay(now) = StartOfDay(db[o].createdAt)

\* C4: a handler's status write is applied only on top of the stored state it
\* loaded: if another write came in between, the write does not go through.
C4_NoSilentOverwrite ==
    [][ \A r \in Req : \A s \in StatusArgs :
            (updateStatus(r, s) /\ db' # db)
                => seenRev[r] = rev[target[r]] ]_vars

\* C5: a stored order becomes cancelled only from pending or confirmed.
C5_CancelOnlyEarly ==
    [][ \A o \in StoredIds :
            (db'[o].status = "cancelled" /\ db[o].status # "cancelled")
                => db[o].status \in {"pending", "confirmed"} ]_vars

\* The return policy: delivered, and at most 30 days since deliveredAt.
ReturnAllowed(o, t) ==
    /\ o.status = "delivered"
    /\ o.deliveredAt # None
    /\ t - o.deliveredAt <= 30 * SecPerDay

\* C6: a return entry is added to an order only when the order is delivered
\* and at most 30 days have passed since deliveredAt.
C6_ReturnOnlyInWindow ==
    [][ \A id \in ClientIds :
            (requestReturn(id, <<1>>, "damaged") /\ clientVars' # clientVars)
                => /\ IsListed(id) => ReturnAllowed(Listed(id), now)
                   /\ IsCurrent(id) => ReturnAllowed(currentOrder, now) ]_vars

\* The paths of a document the status engine writes.
StatusPaths == {"status", "confirmedAt", "shippedAt", "deliveredAt"}

\* C7: a rejected updateStatus leaves the order object and the stored record
\* as they were before the call.
C7_RejectedLeavesUnchanged ==
    [][ \A r \in Req : \A s \in StatusArgs :
            (updateStatus(r, s) /\ err'[r] # "none")
                => /\ \A p \in StatusPaths : doc'[r][p] = doc[r][p]
                   /\ db' = db ]_vars

\* C8: once confirmedAt, shippedAt or deliveredAt of a stored order has a
\* value, that value never changes.
C8_TimestampsWrittenOnce ==
    [][ \A o \in StoredIds : \A p \in {"confirmedAt", "shippedAt", "deliveredAt"} :
            db[o][p] # None => db'[o][p] = db[o][p] ]_vars

Rank(s) ==
    CASE s = "pending" -> 1 [] s = "confirmed" -> 2 [] s = "processing" -> 3
      [] s = "shipped" -> 4 [] s = "delivered" -> 5 [] OTHER -> 0

\* C9: a status change that is neither a cancellation nor a return moves the
\* stored order strictly forward along pending < confirmed < processing <
\* shipped < delivered.
C9_Monotonic ==
    [][ \A o \in StoredIds :
            (/\ db'[o].status # db[o].status
             /\ db'[o].status \notin {"cancelled", "returned"}
             /\ Rank(db[o].status) > 0)
                => Rank(db'[o].status) > Rank(db[o].status) ]_vars

\* C10: the total of every stored order is at least 0.
C10_TotalNonNegative ==
    \A o \in StoredIds : db[o].total >= 0

\* C11: every stored order has an order number, given to it by the save that
\* created it, and no later step (a status update's save, a plain save, on the
\* same day or a later one) changes the order number of a stored order.
C11_NumberAssignedOnce ==
    [][ /\ \A o \in StoredIds : db'[o].orderNumber = db[o].orderNumber
        /\ \A o \in 1..Len(db') : db'[o].orderNumber # NoNumber ]_vars

\* An order numbered on its first day has been saved again, by updateStatus,
\* on a later day.
C11_Witness ==
    /\ Len(db) >= 1
    /\ rev[1] >= 1
    /\ db[1].status = "shipped"
    /\ db[1].shippedAt >= SecPerDay
    /\ db[1].createdAt < SecPerDay
    /\ db[1].orderNumber = OrderNumberOf(db[1].createdAt, 0)

\* The value of a decimal digit character, and of a string of them.
DigitValue(c) == CHOOSE n \in 0..9 : DigitChar[n + 1] = c

RECURSIVE ParseDigits(_)
ParseDigits(s) ==
    IF s = <<>> THEN 0
    ELSE 10 * ParseDigits(SubSeq(s, 1, Len(s) - 1)) + DigitValue(s[Len(s)])

IsDigits(s) == \A i \in 1..Len(s) : \E n \in 0..9 : DigitChar[n + 1] = s[i]

\* The stored orders created on the calendar day of instant t.
CreatedOnDayOf(t) ==
    { o \in StoredIds : db[o].createdAt \div SecPerDay = t \div SecPerDay }

C13_CollisionRetried ==
    \A r \in Req : ~(pc[r] = "failed" /\ err[r] = "E11000")

\* The sum of price * quantity over the first n lines that belong to a seller.
RECURSIVE SellerLineSum(_, _, _)
SellerLineSum(items, n, seller) ==
    IF n = 0 THEN 0
    ELSE (IF items[n].seller = seller THEN items[n].price * items[n].quantity ELSE 0)
            + SellerLineSum(items, n - 1, seller)

\* The sum of the totals of the first n sub-orders.
RECURSIVE SubTotalsSum(_, _)
SubTotalsSum(subOrders, n) ==
    IF n = 0 THEN 0 ELSE subOrders[n].total + SubTotalsSum(subOrders, n - 1)

RECURSIVE RefundedAmount(_)
RefundedAmount(refunds) ==
    IF refunds = <<>> THEN 0
    ELSE refunds[1].amount + RefundedAmount(Tail(refunds))

\* The order objects the client holds: the listed ones and the current one.
ClientCopies ==
    { orders[i] : i \in 1..Len(orders) }
        \cup (IF currentOrder # NoOrder THEN {currentOrder} ELSE {})

\* C15: an order's payment status is refunded only when the amounts of its
\* refund records add up to the order's total.
C15_RefundedOnlyInFull ==
    \A o \in ClientCopies :
        o.payment.status = "refunded" => RefundedAmount(o.payment.refunds) = o.total

\* An order object without its payment.
OutsidePayment(o) == [ f \in (DOMAIN o) \ {"payment"} |-> o[f] ]

\* C19: a step of updatePaymentStatus that reports a failed payment changes,
\* in the listed order and in the current order, nothing outside payment; an
\* order that was pending is still pending, with payment status failed.
C19_FailedPaymentKeepsOrder ==
    [][ \A id \in ClientIds, tx \in TransactionIds :
          updatePaymentStatus(id, "failed", tx)
          => /\ Len(orders') = Len(orders)
             /\ \A i \in 1..Len(orders) :
                    OutsidePayment(orders'[i]) = OutsidePayment(orders[i])
             /\ OutsidePayment(currentOrder') = OutsidePayment(currentOrder)
             /\ (IsListed(id) /\ Listed(id).status = "pending")
                    => /\ orders'[FindIndex(orders, id)].status = "pending"
                       /\ orders'[FindIndex(orders, id)].payment.status = "failed"
             /\ (IsCurrent(id) /\ currentOrder.status = "pending")
                    => /\ currentOrder'.status = "pending"
                       /\ currentOrder'.payment.status = "failed" ]_vars

\* A pending order, listed and current, whose payment failed at a later
\* instant: both copies are still pending and keep their payment method.
C19_Witness ==
    /\ IsListed(1) /\ IsCurrent(1)
    /\ Listed(1).status = "pending" /\ currentOrder.status = "pending"
    /\ Listed(1).payment.status = "failed" /\ currentOrder.payment.status = "failed"
    /\ Listed(1).payment.transactionId = "tx1"
    /\ Listed(1).payment.updatedAt > 0
    /\ Listed(1).payment.method = "stripe"

\* C20: a cancelOrder step on an order that already carries a cancellation
\* record leaves that record (reason and timestamp) as it was, in the listed
\* order and in the current order.
C20_CancellationSetOnce ==
    [][ \A id \in ClientIds :
          cancelOrder(id, "changed my mind")
          => /\ (IsListed(id) /\ Listed(id).cancellation # NoCancellation)
                    => orders'[FindIndex(orders, id)].cancellation
                            = Listed(id).cancellation
             /\ (IsCurrent(id) /\ currentOrder.cancellation # NoCancellation)
                    => currentOrder'.cancellation = currentOrder.cancellation ]_vars

\* C17: in a stored order whose status is cancelled, no item has status
\* shipped or delivered.
C17_CancelledHasNoShippedItem ==
    \A o \in StoredIds :
        db[o].status = "cancelled"
            => \A i \in 1..Len(db[o].items) :
                    db[o].items[i].status \notin {"shipped", "delivered"}

\* C18: every stored order has at least one item.
C18_ItemsNonEmpty ==
    \A o \in StoredIds : Len(db[o].items) > 0

\* C16: a return request enters an order's returns in status requested; a
\* step that changes the status of a return moves it one arrow along
\* requested -> approved -> received -> processed -> completed or along
\* requested -> rejected; a rejected or completed return never changes status.
C16_ReturnStatusMachine ==
    [][ \A o \in StoredIds :
          /\ Len(db'[o].returns) >= Len(db[o].returns)
          /\ \A i \in 1..Len(db'[o].returns) :
                IF i > Len(db[o].returns)
                THEN db'[o].returns[i].status = "requested"
                ELSE LET from == db[o].returns[i].status
                         to   == db'[o].returns[i].status
                     IN  /\ from \in {"rejected", "completed"} => to = from
                         /\ to # from =>
                              \/ from = "requested" /\ to \in {"approved", "rejected"}
                              \/ from = "approved" /\ to = "received"
                              \/ from = "received" /\ to = "processed"
                              \/ from = "processed" /\ to = "completed" ]_vars

\* A return of the first item of a delivered order has gone all the way to
\* completed, its refund computed when it was processed.
C16_Witness ==
    \E o \in StoredIds :
        /\ db[o].status = "delivered"
        /\ Len(db[o].returns) = 1
        /\ db[o].returns[1].status = "completed"
        /\ db[o].returns[1].refundAmount
                = db[o].items[1].price * db[o].items[1].quantity
        /\ db[o].returns[1].processedAt # None

\* s is an initial part of t.
IsPrefix(s, t) == Len(s) <= Len(t) /\ SubSeq(t, 1, Len(s)) = s

\* C21: no step shortens or rewrites the returns of a listed order: the list
\* it had before is an initial part of the list it has after.
C21_ReturnsAppendOnly ==
    [][ \A i \in 1..Len(orders) :
          (Len(orders') = Len(orders) /\ orders'[i].id = orders[i].id)
              => IsPrefix(orders[i].returns, orders'[i].returns) ]_vars

\* The listed copy of order id after the step.
ListedAfter(id) == orders'[FindIndex(orders, id)]

\* Order id is held twice: in the list and as the current order.
HeldTwice(id) == IsListed(id) /\ IsCurrent(id)

\* A step of one of the four reducers on an id the store does not hold leaves
\* the store as it was.
UnknownIdUnchanged ==
    \A id \in MirrorIds :
        (/\ ~IsListed(id) /\ ~IsCurrent(id)
         /\ \/ updateOrderStatus(id, "shipped", None)
            \/ cancelOrder(id, "changed my mind")
            \/ \E tx \in TransactionIds : updatePaymentStatus(id, "completed", tx)
            \/ requestReturnUpTo(id, <<1>>, "damaged", MaxReturns + 1))
        => clientVars' = clientVars

\* After updateOrderStatus or cancelOrder on an order held twice both copies
\* have the same status; after updatePaymentStatus, the same payment status
\* and transaction id.
SameStatusOnBoth ==
    \A id \in MirrorIds :
        /\ (HeldTwice(id) /\ (\/ updateOrderStatus(id, "shipped", None)
                              \/ cancelOrder(id, "changed my mind")))
              => ListedAfter(id).status = currentOrder'.status
        /\ \A tx \in TransactionIds :
              (HeldTwice(id) /\ updatePaymentStatus(id, "completed", tx))
                  => /\ ListedAfter(id).payment.status = currentOrder'.payment.status
                     /\ ListedAfter(id).payment.transactionId
                            = currentOrder'.payment.transactionId

\* C28, as stated: each of the four reducers leaves the two copies of an order
\* held twice equal in what it writes, and requestReturn leaves their return
\* lists equally long; on an unknown id nothing changes.
C28_BothCopiesAgree ==
    [][ /\ UnknownIdUnchanged
        /\ SameStatusOnBoth
        /\ \A id \in MirrorIds :
              (HeldTwice(id) /\ requestReturnUpTo(id, <<1>>, "damaged", MaxReturns + 1))
                  => Len(ListedAfter(id).returns) = Len(currentOrder'.returns) ]_vars

\* C28, amended: as above, except that requestReturn adds one entry to each
\* copy, so the two return lists are equally long afterwards exactly when
\* they were equally long before.
C28_BothCopiesSameChange ==
    [][ /\ UnknownIdUnchanged
        /\ SameStatusOnBoth
        /\ \A id \in MirrorIds :
              (HeldTwice(id) /\ requestReturnUpTo(id, <<1>>, "damaged", MaxReturns + 1))
                  => /\ Len(ListedAfter(id).returns) = Len(Listed(id).returns) + 1
                     /\ Len(currentOrder'.returns) = Len(currentOrder.returns) + 1 ]_vars

\* An order held twice whose copies were shipped together, paid together and
\* got a return together, the listed copy having one return more from before
\* it became the current order.
C28_Witness ==
    /\ HeldTwice(1)
    /\ Listed(1).status = "shipped" /\ currentOrder.status = "shipped"
    /\ Len(Listed(1).statusHistory) = 1
    /\ Listed(1).payment.status = "completed"
    /\ currentOrder.payment.status = "completed"
    /\ Len(Listed(1).returns) = 2
    /\ Len(currentOrder.returns) = 1

\* The timestamp path updateStatus(s) writes; none for the other statuses.
StampOf(s) ==
    CASE s = "confirmed" -> {"confirmedAt"}
      [] s = "shipped"   -> {"shippedAt"}
      [] s = "delivered" -> {"deliveredAt"}
      [] OTHER -> {}

\* C22: a step of updateStatus(s) leaves, in the order object and in the
\* stored record, items, tax, shipping and discount as they were and every
\* timestamp other than the one of s as it was; for s confirmed, shipped or
\* delivered the timestamp of s is the current time afterwards, in both.
C22_UpdateStatusFrame ==
    [][ \A r \in Req : \A s \in Statuses :
          updateStatus(r, s)
          => LET o == target[r] IN
             /\ \A p \in {"items", "tax", "shipping", "discount"} :
                    doc'[r][p] = doc[r][p] /\ db'[o][p] = db[o][p]
             /\ \A p \in {"confirmedAt", "shippedAt", "deliveredAt"} \ StampOf(s) :
                    doc'[r][p] = doc[r][p] /\ db'[o][p] = db[o][p]
             /\ \A p \in StampOf(s) :
                    doc'[r][p] = now /\ db'[o][p] = now ]_vars

\* An order confirmed at one instant and shipped at a later one keeps the
\* first stamp and has no delivery stamp.
C22_Witness ==
    \E o \in StoredIds :
        /\ db[o].status = "shipped"
        /\ db[o].confirmedAt = 0
        /\ db[o].shippedAt = 1
        /\ db[o].deliveredAt = None

\* C29: a delivered order, stored or held by a handler, has deliveredAt set.
C29_DeliveredHasStamp ==
    /\ \A o \in StoredIds :
          db[o].status = "delivered" => db[o].deliveredAt # None
    /\ \A r \in Req :
          (pc[r] = "loaded" /\ doc[r].status = "delivered")
              => doc[r].deliveredAt # None

\* A delivered order, its delivery stamped a day ago, is held by a handler
\* and canBeReturned accepts it.
C29_Witness ==
    \E r \in Req :
        /\ pc[r] = "loaded"
        /\ doc[r].status = "delivered"
        /\ db[target[r]].status = "delivered"
        /\ doc[r].deliveredAt = 0
        /\ now = SecPerDay
        /\ canBeReturned(doc[r], now)

\* The sum of the quantities, and of the prices times the quantities, of
\* the first n items of a cart.
RECURSIVE CartQuantity(_, _)
CartQuantity(items, n) ==
    IF n = 0 THEN 0 ELSE items[n].quantity + CartQuantity(items, n - 1)

RECURSIVE CartPrice(_, _)
CartPrice(items, n) ==
    IF n = 0 THEN 0
    ELSE items[n].product.price * items[n].quantity + CartPrice(items, n - 1)

\* C24: in every state of the cart totalItems is the sum of the items'
\* quantities and totalPrice the sum of product.price * quantity; and a step
\* of setCartLoading or setCartError changes neither items nor the totals.
C24_CartTotals ==
    /\ [](/\ cart.totalItems = CartQuantity(cart.items, Len(cart.items))
          /\ cart.totalPrice = CartPrice(cart.items, Len(cart.items)))
    /\ [][ ((\E flag \in BOOLEAN : setCartLoading(flag)) \/ setCartError("network"))
             => /\ cart'.items = cart.items
                /\ cart'.totalItems = cart.totalItems
                /\ cart'.totalPrice = cart.totalPrice ]_vars

\* A cart of two items, the first raised by a second addToCart, shows 4 items
\* for 95, with an error recorded.
C24_Witness ==
    /\ Len(cart.items) = 2
    /\ cart.items[1].quantity = 3
    /\ cart.totalItems = 4
    /\ cart.totalPrice = 95
    /\ cart.error = "network"

\* C25: no two items of the cart have the same id, and no two have the same
\* product id and variant.
C25_CartIdsUnique ==
    \A i, j \in 1..Len(cart.items) :
        i # j => /\ cart.items[i].id # cart.items[j].id
                 /\ ~(/\ cart.items[i].product.id = cart.items[j].product.id
                      /\ cart.items[i].variant = cart.items[j].variant)

C27_FiveAttemptsLocked ==
    account.loginAttempts >= 5 => account.lockUntil # None

\* The header carries, after the first 'Bearer ' is taken out, exactly one
\* token that verifies.
GoodToken(header) ==
    /\ header.present
    /\ \E u \in UserIds :
          \/ header.parts = <<[kind |-> "valid", userId |-> u]>>
          \/ header.parts = <<BearerPart, [kind |-> "valid", userId |-> u]>>

\* C23: a request authMiddleware has let through carried a token that
\* verifies for a user that exists and is active, and has req.userId and
\* req.user set to that user; a request authMiddleware has finished with
\* otherwise was answered 401 or 500; no request has both an answer and a
\* next() call of the middleware that answered.  A step of authorize(roles)
\* answers 401 when req.user is missing, 403 when its role is not in roles,
\* and calls next otherwise, without answering.
C23_AuthGate ==
    /\ [](\A r \in Req :
            /\ auth[r].authNext
                 => /\ GoodToken(auth[r].header)
                    /\ auth[r].userId \in {1, 2}
                    /\ auth[r].user = findById(auth[r].userId)
                    /\ auth[r].user.isActive
                    /\ auth[r].header.parts[Len(auth[r].header.parts)].userId = auth[r].userId
            /\ (auth[r].pc = "answered" /\ ~auth[r].authNext /\ auth[r].header # NoHeader)
                 => auth[r].status \in {401, 500}
            /\ auth[r].status # 0 => auth[r].nexts = (IF auth[r].authNext THEN 1 ELSE 0)
            /\ auth[r].pc \in {"passed", "authorized"} => auth[r].status = 0)
    /\ [][ \A r \in Req :
            /\ \A header \in Headers :
                 authMiddleware(r, header)
                   => /\ auth'[r].nexts = 0
                      /\ (~GoodToken(header)) => auth'[r].status \in {401, 500}
                      /\ (~header.present \/ header.parts \in {<<>>, <<BearerPart>>})
                           => auth'[r].status = 401
            /\ \A queryFails \in BOOLEAN :
                 authFound(r, queryFails)
                   => (auth'[r].status \in {401, 500}) # (auth'[r].nexts = 1)
            /\ \A roles \in RoleSets :
                 authorize(r, roles)
                   => IF auth[r].user = NoUser
                      THEN auth'[r].status = 401 /\ auth'[r].nexts = auth[r].nexts
                      ELSE IF auth[r].user.role \notin roles
                      THEN auth'[r].status = 403 /\ auth'[r].nexts = auth[r].nexts
                      ELSE auth'[r].status = 0 /\ auth'[r].nexts = auth[r].nexts + 1 ]_vars

\* One request was let through both middlewares as a seller while another,
\* with a token of the inactive user, was answered 401.
C23_Witness ==
    /\ auth[1].pc = "authorized"
    /\ auth[1].user.role = "seller"
    /\ auth[1].nexts = 2
    /\ auth[2].pc = "answered"
    /\ auth[2].decoded = 3
    /\ auth[2].status = 401

\* The positions of the messages of one sender that call k appended.
MessagesOf(k, sender) ==
    { i \in 1..Len(chat.messages) :
        chat.messages[i].of = k /\ chat.messages[i].sender = sender }

\* C30: a call of sendMessage with non-blank text has appended exactly one
\* user message, with the text as typed; it has appended no bot message
\* while it is in flight and exactly one, after its user message, once it is
\* over; whenever no call is in flight the loading flag is false; and every
\* call in flight is eventually over.
C30_OneReplyPerSend ==
    /\ [](\A k \in Sends :
            /\ Cardinality(MessagesOf(k, "user")) = (IF sends[k].pc = "idle" THEN 0 ELSE 1)
            /\ Cardinality(MessagesOf(k, "bot")) = (IF sends[k].pc = "done" THEN 1 ELSE 0)
            /\ \A i \in MessagesOf(k, "user") :
                 /\ chat.messages[i].text \notin {<<>>, <<" ">>}
                 /\ \A j \in MessagesOf(k, "bot") : i < j)
    /\ []((\A k \in Sends : sends[k].pc \in {"idle", "done"}) => ~chat.loading)
    /\ \A k \in Sends : (sends[k].pc = "awaiting") ~> (sends[k].pc = "done")

\* The second call started while the first was in flight; the first got its
\* reply after the second had failed, and nothing is in flight.
C30_Witness ==
    /\ Len(chat.messages) = 4
    /\ chat.messages[1].sender = "user" /\ chat.messages[1].of = 1
    /\ chat.messages[2].sender = "user" /\ chat.messages[2].of = 2
    /\ chat.messages[3].isError /\ chat.messages[3].of = 2
    /\ chat.messages[4].sender = "bot" /\ chat.messages[4].of = 1
    /\ ~chat.messages[4].isError
    /\ sends[1].pc = "done" /\ sends[2].pc = "done"
    /\ ~chat.loading

====
